---- MODULE Spec2Model ----
(***************************************************************************)
(* MockChain (relayer/src/chain/mock.rs): the simulated chain behind the   *)
(* relayer's Chain trait.  The adapter holds a ChainConfig and a           *)
(* MockContext (the Ledger); a test calls the trait's operations one at a  *)
(* time.  Each operation is one action; op/arg/ret record the last call    *)
(* and what it returned to the caller.                                     *)
(***************************************************************************)
EXTENDS Integers, Sequences, FiniteSets, TLC

\* ------------------------------------------------------------------ bounds
\* send_tx calls made by the test before it stops submitting.
MaxSends == 2
\* Messages in one batch handed to send_tx.
MaxBatch == 1
\* Largest latest_height a stored client state reaches.
MaxClientHeight == 2

\* ------------------------------------------------------- program constants
\* bootstrap: MockContext::new(.., 50, Height::new(version, 20)).
MaxHistorySize == 50
InitialHeight == 20
\* build_client_state: trusting_period.add(Duration::from_secs(1000)).
UnbondingMarginSecs == 1000
\* build_client_state: Duration::from_millis(3000).
MaxClockDriftMillis == 3000
\* test_utils::get_basic_chain_config: 14 * 24 * 60 * 60 seconds.
BasicTrustingPeriodSecs == 1209600

\* -------------------------------------------------------------- data types
\* Option<T>
None == [some |-> FALSE]
Some(x) == [some |-> TRUE, v |-> x]

\* Result<T, Error>; an Error is a Kind with an optional source (context).
Ok(x) == [ok |-> TRUE, val |-> x]
Err(k, s) == [ok |-> FALSE, kind |-> k, source |-> s]
\* unimplemented!(): the call unwinds, nothing is returned.
Panic == [ok |-> FALSE, kind |-> "panic", source |-> "not implemented"]

\* ibc::Height
Height(vn, vh) == [version_number |-> vn, version_height |-> vh]
HeightZero == Height(0, 0)
\* Revision-major order of Height.
HeightLe(a, b) ==
    \/ a.version_number < b.version_number
    \/ /\ a.version_number = b.version_number
       /\ a.version_height <= b.version_height

\* ChainId::from_str("testchain-1") has version 1; an id with no "-<n>"
\* suffix has version 0.
ChainIds ==
    { [id |-> "testchain-1", version |-> 1],
      [id |-> "mockchain", version |-> 0] }
ChainIdToString(cid) == cid.id

\* Trusting periods, in seconds (a Duration is unsigned: zero is the only
\* non-positive one).
TrustingPeriods == {0, BasicTrustingPeriodSecs}
TrustThresholds == { <<1, 3>> }

\* The fields of ChainConfig that MockChain reads.
ChainConfigs ==
    [id : ChainIds, trusting_period : TrustingPeriods,
     trust_threshold : TrustThresholds]

ClientIds == {"client-a", "client-b"}
ClientStateVariants == {"Tendermint", "Mock"}

\* Heights a test passes as arguments: zero, before, at and after bootstrap.
ArgHeights ==
    { HeightZero, Height(0, InitialHeight), Height(1, InitialHeight),
      Height(1, InitialHeight + 1) }

\* Light blocks a test supplies: only the signed header is read.
LightBlocks ==
    { [signed_header |->
         [header |-> [height |-> h, time |-> t, app_hash |-> a,
                      next_validators_hash |-> "vals"]]] :
      h \in {InitialHeight}, t \in {100, 200}, a \in {"rootA"} }

VARIABLES
    config,         \* MockChain.config
    context,        \* MockChain.context (the Ledger)
    channel,        \* the event channel made by the last init_event_monitor
    op,             \* the last operation called
    arg,            \* its argument
    ret,            \* what it returned
    ledger_sends,   \* how many batches the Ledger was handed
    panicked        \* the calling thread unwound in unimplemented!()

vars ==
    <<config, context, channel, op, arg, ret, ledger_sends, panicked>>


\* ------------------------------------------------------------- the Ledger
\* ibc::mock::context::MockContext, seen through ICS18Context.  The adapter
\* only constructs it, hands it batches and asks it two questions.
Min(a, b) == IF a <= b THEN a ELSE b

MockContext_new(host_id, max_history_size, latest_height) ==
    [host_chain_id |-> host_id,
     max_history_size |-> max_history_size,
     history_len |-> Min(max_history_size, latest_height.version_height),
     latest_height |-> latest_height,
     clients |-> [c \in ClientIds |-> None]]

\* A stored client state: a tagged union over the client-state kinds.
AnyClientState(variant, h) == [variant |-> variant, state |-> [latest_height |-> h]]

\* Opaque messages of a batch: create a client, update one, or bytes the
\* Ledger cannot decode.
Msgs ==
    { [type |-> "CreateClient", client_id |-> c, variant |-> v] :
        c \in ClientIds, v \in ClientStateVariants }
    \cup { [type |-> "UpdateClient", client_id |-> c, height |-> h] :
             c \in ClientIds, h \in 2..MaxClientHeight }
    \cup { [type |-> "Unknown"] }

\* Batches of at most MaxBatch messages, the empty batch included.
Batches == UNION { [1..n -> Msgs] : n \in 0..MaxBatch }

\* One message applied to the Ledger: the new Ledger, or the rejection.
Ledger_dispatch(ctx, m) ==
    IF m.type = "CreateClient"
    THEN IF ctx.clients[m.client_id].some
         THEN Err("ClientAlreadyExists", <<>>)
         ELSE Ok([ctx EXCEPT !.clients[m.client_id] =
                                 Some(AnyClientState(m.variant, 1))])
    ELSE IF m.type = "UpdateClient"
    THEN IF ~ctx.clients[m.client_id].some
         THEN Err("ClientNotFound", <<>>)
         ELSE IF m.height <= ctx.clients[m.client_id].v.state.latest_height
         THEN Err("LowUpdateHeight", <<>>)
         ELSE Ok([ctx EXCEPT !.clients[m.client_id] =
                    Some(AnyClientState(ctx.clients[m.client_id].v.variant, m.height))])
    ELSE Err("UnknownMessageTypeUrl", <<>>)

\* The batch is applied to an interim copy, message by message.
RECURSIVE Ledger_deliver(_, _)
Ledger_deliver(ctx, msgs) ==
    IF msgs = <<>>
    THEN Ok(ctx)
    ELSE LET r == Ledger_dispatch(ctx, Head(msgs))
         IN  IF r.ok THEN Ledger_deliver(r.val, Tail(msgs)) ELSE r

\* Variant: the newest block is pruned instead of the oldest.
advance_host_chain_height_back(ctx) ==
    [ctx EXCEPT !.latest_height.version_height = @ - 1]

\* A new host block: the height moves up by one, the history is pruned to
\* max_history_size.
advance_host_chain_height(ctx) ==
    [ctx EXCEPT !.latest_height.version_height = @ + 1,
                !.history_len = Min(ctx.max_history_size, @ + 1)]

\* ICS18Context::send: [result, ctx], the Ledger's answer and the Ledger
\* after the call (as before it when the batch is rejected).
ICS18_send(ctx, msgs) ==
    LET r == Ledger_deliver(ctx, msgs)
    IN  IF r.ok
        THEN [result |-> Ok("unit"), ctx |-> advance_host_chain_height(r.val)]
        ELSE [result |-> Err("TransactionFailed", <<r.kind>>), ctx |-> ctx]

ICS18_query_latest_height(ctx) == ctx.latest_height

ICS18_query_client_full_state(ctx, client_id) == ctx.clients[client_id]

\* ----------------------------------------------------- library operations
\* downcast!(any_state => AnyClientState::Tendermint)
downcast(any_state, variant) ==
    IF any_state.variant = variant THEN Some(any_state.state) ELSE None

\* crossbeam channel::unbounded(): one Sender, one Receiver, nothing queued.
channel_unbounded == [senders |-> 1, queue |-> <<>>]
\* A Sender dropped.
drop_sender(ch) == [ch EXCEPT !.senders = @ - 1]
\* Receiver::try_recv: a queued message; or Disconnected when every Sender
\* is gone; or Empty.
try_recv(ch) ==
    IF ch.queue # <<>> THEN Ok(Head(ch.queue))
    ELSE IF ch.senders = 0 THEN Err("Disconnected", <<>>)
    ELSE Err("Empty", <<>>)

\* TendermintClientState::new: rejects a non-positive trusting period.
TendermintClientState_new(chain_id, trust_level, trusting_period, unbonding_period, max_clock_drift, latest_height, frozen_height, consensus_params, upgrade_path, allow_update_after_expiry, allow_update_after_misbehaviour) ==
    IF trusting_period <= 0
    THEN Err("InvalidTrustingPeriod", <<>>)
    ELSE Ok([chain_id |-> chain_id,
             trust_level |-> trust_level,
             trusting_period |-> trusting_period,
             unbonding_period |-> unbonding_period,
             max_clock_drift |-> max_clock_drift,
             latest_height |-> latest_height,
             frozen_height |-> frozen_height,
             consensus_params |-> consensus_params,
             upgrade_path |-> upgrade_path,
             allow_update_after_expiry |-> allow_update_after_expiry,
             allow_update_after_misbehaviour |-> allow_update_after_misbehaviour])

\* TendermintConsensusState::from(header)
ConsensusState_from(header) ==
    [timestamp |-> header.time,
     root |-> header.app_hash,
     next_validators_hash |-> header.next_validators_hash]


\* ------------------------------------------------------ MockChain: values
\* What each operation that returns computes from config, context and its
\* arguments.

\* Variant: the history size and the initial height change places.
bootstrap_swapped(cfg) ==
    Ok([config |-> cfg,
        context |-> MockContext_new(cfg.id, InitialHeight,
                                    Height(cfg.id.version, MaxHistorySize))])

\* bootstrap: the config is cloned into the adapter, the Ledger starts at
\* Height::new(config.id.version(), 20) with a history of at most 50 blocks.
bootstrap(cfg) ==
    Ok([config |-> cfg,
        context |-> MockContext_new(cfg.id, MaxHistorySize,
                                    Height(cfg.id.version, InitialHeight))])

\* init_light_client: Ok((Box::new(MockLightClient::new(self)), None))
init_light_client ==
    Ok([light_client |-> "MockLightClient", handle |-> None])

\* init_event_monitor: `let (_, rx) = channel::unbounded()` drops the Sender
\* at the end of the statement; Ok((rx, None)).
init_event_monitor ==
    LET rx == drop_sender(channel_unbounded)
    IN  Ok([rx |-> rx, handle |-> None])

id == config.id

get_signer == Ok("dummy_account_id")

\* Variant: the unbonding period is the trusting period, no margin added.
build_client_state_no_margin(height) ==
    LET r == TendermintClientState_new(
                 ChainIdToString(id), config.trust_threshold,
                 config.trusting_period, config.trusting_period,
                 MaxClockDriftMillis, height, HeightZero,
                 "default_consensus_params", "upgrade/upgradedClient",
                 FALSE, FALSE)
    IN  IF r.ok THEN Ok(r.val) ELSE Err("BuildClientStateFailure", <<r.kind>>)

\* Variant: the latest height is read from the Ledger, not the argument.
build_client_state_from_ledger(height) ==
    LET r == TendermintClientState_new(
                 ChainIdToString(id), config.trust_threshold,
                 config.trusting_period,
                 config.trusting_period + UnbondingMarginSecs,
                 MaxClockDriftMillis, ICS18_query_latest_height(context),
                 HeightZero, "default_consensus_params",
                 "upgrade/upgradedClient", FALSE, FALSE)
    IN  IF r.ok THEN Ok(r.val) ELSE Err("BuildClientStateFailure", <<r.kind>>)

build_client_state(height) ==
    LET r == TendermintClientState_new(
                 ChainIdToString(id),
                 config.trust_threshold,
                 config.trusting_period,
                 config.trusting_period + UnbondingMarginSecs,
                 MaxClockDriftMillis,
                 height,
                 HeightZero,
                 "default_consensus_params",
                 "upgrade/upgradedClient",
                 FALSE,
                 FALSE)
    IN  IF r.ok THEN Ok(r.val) ELSE Err("BuildClientStateFailure", <<r.kind>>)

build_consensus_state(light_block) ==
    Ok(ConsensusState_from(light_block.signed_header.header))

query_latest_height == Ok(ICS18_query_latest_height(context))

\* Variant: the stored state is handed back without the variant check.
query_client_state_unchecked(client_id, height) ==
    LET any_state == ICS18_query_client_full_state(context, client_id)
    IN  IF ~any_state.some
        THEN Err("EmptyResponseValue", <<>>)
        ELSE Ok(any_state.v.state)

\* Variant: a height below the Ledger's latest has no answer.
query_client_state_at_height(client_id, height) ==
    LET any_state == ICS18_query_client_full_state(context, client_id)
    IN  IF ~any_state.some \/ height.version_height < context.latest_height.version_height
        THEN Err("EmptyResponseValue", <<>>)
        ELSE LET client_state == downcast(any_state.v, "Tendermint")
             IN  IF ~client_state.some
                 THEN Err("Query", <<"unexpected client state type">>)
                 ELSE Ok(client_state.v)

query_client_state(client_id, height) ==
    LET any_state == ICS18_query_client_full_state(context, client_id)
    IN  IF ~any_state.some
        THEN Err("EmptyResponseValue", <<>>)
        ELSE LET client_state == downcast(any_state.v, "Tendermint")
             IN  IF ~client_state.some
                 THEN Err("Query", <<"unexpected client state type">>)
                 ELSE Ok(client_state.v)

\* Variant: a rejected batch is submitted a second time.
send_tx_retry(ctx, proto_msgs) ==
    LET r == ICS18_send(ctx, proto_msgs)
        r2 == ICS18_send(r.ctx, proto_msgs)
    IN  IF r.result.ok
        THEN [ret |-> Ok("OK"), context |-> r.ctx, replies |-> <<r.result>>]
        ELSE [ret |-> IF r2.result.ok
                      THEN Ok("OK")
                      ELSE Err("Rpc", <<r2.result.kind>> \o r2.result.source),
              context |-> r2.ctx,
              replies |-> <<r.result, r2.result>>]

\* send_tx: one call of the Ledger's send; "OK" when it accepts, Kind::Rpc
\* with the Ledger's error as context when it rejects.  replies lists the
\* Ledger's answers to the calls made.
send_tx(ctx, proto_msgs) ==
    LET r == ICS18_send(ctx, proto_msgs)
    IN  [ret |-> IF r.result.ok
                 THEN Ok("OK")
                 ELSE Err("Rpc", <<r.result.kind>> \o r.result.source),
         context |-> r.ctx,
         replies |-> <<r.result>>]

\* ----------------------------------------------------- MockChain: actions
Init ==
    /\ \E cfg \in ChainConfigs :
          LET chain == bootstrap(cfg)
          IN  /\ chain.ok
              /\ config = chain.val.config
              /\ context = chain.val.context
              /\ arg = cfg
    /\ channel = None
    /\ op = "bootstrap"
    /\ ret = Ok("MockChain")
    /\ ledger_sends = 0
    /\ panicked = FALSE

\* A call that returns r and touches neither the adapter nor the Ledger.
Returns(o, a, r) ==
    /\ ~panicked
    /\ op' = o
    /\ arg' = a
    /\ ret' = r
    /\ UNCHANGED <<config, context, channel, ledger_sends, panicked>>

\* A call that ends in unimplemented!(): the caller's thread unwinds.
Unimplemented(o, a) ==
    /\ ~panicked
    /\ op' = o
    /\ arg' = a
    /\ ret' = Panic
    /\ panicked' = TRUE
    /\ UNCHANGED <<config, context, channel, ledger_sends>>

Op_init_light_client == Returns("init_light_client", <<>>, init_light_client)

Op_init_event_monitor ==
    /\ ~panicked
    /\ op' = "init_event_monitor"
    /\ arg' = <<>>
    /\ ret' = init_event_monitor
    /\ channel' = Some(init_event_monitor.val.rx)
    /\ UNCHANGED <<config, context, ledger_sends, panicked>>

\* The consumer of the event stream polls the receiver it was given.
Op_try_recv ==
    /\ channel.some
    /\ Returns("try_recv", <<>>, try_recv(channel.v))

Op_id == Returns("id", <<>>, Ok(id))

\* Variant: an empty key store is handed back.
Op_keybase_default == Returns("keybase", <<>>, Ok("KeyRing"))

Op_keybase == Unimplemented("keybase", <<>>)

Op_query ==
    \E height \in {HeightZero, Height(1, InitialHeight)}, prove \in BOOLEAN :
        Unimplemented("query", <<height, prove>>)

Op_send_tx ==
    /\ ~panicked
    /\ ledger_sends < MaxSends
    /\ \E proto_msgs \in Batches :
          LET r == send_tx(context, proto_msgs)
          IN  /\ op' = "send_tx"
              /\ arg' = proto_msgs
              /\ ret' = r.ret
              /\ context' = r.context
              /\ ledger_sends' = ledger_sends + Len(r.replies)
    /\ UNCHANGED <<config, channel, panicked>>

Op_get_signer == Returns("get_signer", <<>>, get_signer)

Op_get_key == Unimplemented("get_key", <<>>)

Op_build_client_state ==
    \E height \in ArgHeights :
        Returns("build_client_state", height, build_client_state(height))

Op_build_consensus_state ==
    \E light_block \in LightBlocks :
        Returns("build_consensus_state", light_block, build_consensus_state(light_block))

Op_build_header ==
    \E trusted \in LightBlocks, target \in LightBlocks :
        Unimplemented("build_header", <<trusted, target>>)

Op_query_latest_height == Returns("query_latest_height", <<>>, query_latest_height)

\* Variant: the lookup takes the record out of the Ledger.
Op_query_client_state_remove ==
    /\ ~panicked
    /\ \E client_id \in ClientIds, height \in ArgHeights :
          /\ op' = "query_client_state"
          /\ arg' = <<client_id, height>>
          /\ ret' = query_client_state(client_id, height)
          /\ context' = [context EXCEPT !.clients[client_id] = None]
    /\ UNCHANGED <<config, channel, ledger_sends, panicked>>

Op_query_client_state ==
    \E client_id \in ClientIds, height \in ArgHeights :
        Returns("query_client_state", <<client_id, height>>,
                query_client_state(client_id, height))

Op_query_commitment_prefix == Unimplemented("query_commitment_prefix", <<>>)

Op_proven_client_state ==
    \E client_id \in ClientIds, height \in {HeightZero, Height(1, InitialHeight)} :
        Unimplemented("proven_client_state", <<client_id, height>>)

Op_proven_client_consensus ==
    \E client_id \in ClientIds, height \in {HeightZero, Height(1, InitialHeight)} :
        Unimplemented("proven_client_consensus", <<client_id, height, height>>)

Next ==
    \/ Op_init_light_client
    \/ Op_init_event_monitor
    \/ Op_try_recv
    \/ Op_id
    \/ Op_keybase
    \/ Op_query
    \/ Op_send_tx
    \/ Op_get_signer
    \/ Op_get_key
    \/ Op_build_client_state
    \/ Op_build_consensus_state
    \/ Op_build_header
    \/ Op_query_latest_height
    \/ Op_query_client_state
    \/ Op_query_commitment_prefix
    \/ Op_proven_client_state
    \/ Op_proven_client_consensus

Spec == Init /\ [][Next]_vars


\* ------------------------------------------------------------- properties
NotImplementedOps ==
    {"keybase", "query", "get_key", "build_header", "query_commitment_prefix",
     "proven_client_state", "proven_client_consensus"}

ReadOnlyOps ==
    {"id", "get_signer", "build_client_state", "build_consensus_state",
     "query_latest_height", "query_client_state", "init_light_client",
     "init_event_monitor"}

\* C1: across every send_tx call that returns success, the height that
\* query_latest_height returns after the call is greater than or equal to
\* the height it returned before the call.
C1_HeightNonDecreasing ==
    [][(op' = "send_tx" /\ ret'.ok) =>
          /\ query_latest_height.ok /\ query_latest_height'.ok
          /\ HeightLe(query_latest_height.val, query_latest_height'.val)]_vars

C1_Witness ==
    /\ op = "send_tx" /\ ret.ok
    /\ ledger_sends = MaxSends
    /\ query_latest_height.val.version_height > InitialHeight

\* C2: before any send_tx, query_latest_height returns the initial height
\* (revision of the chain id, height 20) with no error; for "testchain-1"
\* that is height 20 of revision 1, and build_client_state at that height
\* yields a ClientState whose latest_height is it.
C2_InitialHeight ==
    (ledger_sends = 0 /\ op = "query_latest_height") =>
        /\ ret = Ok(Height(config.id.version, InitialHeight))
        /\ ret.val.version_height = 20
        /\ (config.id.id = "testchain-1" => ret.val = Height(1, 20))
        /\ (config.trusting_period > 0 =>
               /\ build_client_state(ret.val).ok
               /\ build_client_state(ret.val).val.latest_height = ret.val
               /\ build_client_state(ret.val).val.latest_height.version_height = 20)

C2_Witness ==
    /\ ledger_sends = 0 /\ op = "query_latest_height"
    /\ config.id.id = "testchain-1" /\ config.trusting_period > 0
    /\ ret = Ok(Height(1, InitialHeight))

\* C3: send_tx hands the batch to the Ledger exactly once; it returns "OK"
\* when the Ledger accepts the batch (the empty batch on a fresh chain
\* included) and an Rpc error wrapping the Ledger's error when the Ledger
\* rejects it; it never panics.
C3_SendTxOutcomes ==
    [][op' = "send_tx" =>
          LET l == ICS18_send(context, arg').result
          IN  /\ ledger_sends' = ledger_sends + 1
              /\ (l.ok => ret' = Ok("OK"))
              /\ (~l.ok => ret' = Err("Rpc", <<l.kind>> \o l.source))
              /\ ~panicked'
              /\ ((arg' = <<>> /\ context = bootstrap(config).val.context) =>
                      ret' = Ok("OK"))]_vars

C3_Witness ==
    /\ op = "send_tx"
    /\ arg # <<>>
    /\ ret = Err("Rpc", <<"TransactionFailed", "ClientAlreadyExists">>)
    /\ ledger_sends = MaxSends

\* C4: query_client_state fails with EmptyResponseValue when the Ledger
\* stores no client under the id, fails with Query when the stored state is
\* not of the Tendermint variant, and only otherwise succeeds, with the
\* stored state unchanged.
C4_QueryClientStateOutcomes ==
    op = "query_client_state" =>
        LET rec == context.clients[arg[1]]
        IN  /\ (~rec.some => ret = Err("EmptyResponseValue", <<>>))
            /\ ((rec.some /\ rec.v.variant # "Tendermint") =>
                    (~ret.ok /\ ret.kind = "Query"))
            /\ ((rec.some /\ rec.v.variant = "Tendermint") =>
                    ret = Ok(rec.v.state))
            /\ (ret.ok => (rec.some /\ rec.v.variant = "Tendermint"))

C4_Witness ==
    /\ op = "query_client_state"
    /\ context.clients[arg[1]].some
    /\ context.clients[arg[1]].v.variant = "Mock"
    /\ ~ret.ok /\ ret.kind = "Query"

\* C5: with a positive trusting period T, build_client_state(h) yields a
\* ClientState with unbonding period T + 1000 s (so greater than T), frozen
\* height zero, latest height h, chain id, trust threshold and trusting
\* period of the adapter's config, and both allow-update flags false.
C5_BuildClientState ==
    (op = "build_client_state" /\ config.trusting_period > 0) =>
        /\ ret.ok
        /\ ret.val.unbonding_period > config.trusting_period
        /\ ret.val.unbonding_period = config.trusting_period + 1000
        /\ ret.val.frozen_height = HeightZero
        /\ ret.val.latest_height = arg
        /\ ret.val.chain_id = config.id.id
        /\ ret.val.trust_level = config.trust_threshold
        /\ ret.val.trusting_period = config.trusting_period
        /\ ~ret.val.allow_update_after_expiry
        /\ ~ret.val.allow_update_after_misbehaviour

C5_Witness ==
    /\ op = "build_client_state"
    /\ config.trusting_period = BasicTrustingPeriodSecs
    /\ arg = Height(1, InitialHeight + 1)
    /\ ret.ok
    /\ ret.val.unbonding_period = BasicTrustingPeriodSecs + UnbondingMarginSecs

\* C6: every call of an operation the simulated chain does not implement
\* ends in a panic: nothing is returned, and no call follows it.
C6_NotImplementedPanics ==
    /\ [](op \in NotImplementedOps => (panicked /\ ret = Panic))
    /\ [][~panicked]_vars

C6_Witness ==
    /\ op = "keybase" /\ panicked /\ ret = Panic
    /\ ledger_sends > 0

\* C7: init_light_client and init_event_monitor always succeed with no
\* background-task handle, and a consumer polling the receiver observes an
\* empty source: no event batch and no error.
C7_EventStreamEmpty ==
    /\ (op = "init_light_client" => (ret.ok /\ ~ret.val.handle.some))
    /\ (op = "init_event_monitor" => (ret.ok /\ ~ret.val.handle.some))
    /\ (op = "try_recv" => ret = Err("Empty", <<>>))

\* C8: build_client_state and build_consensus_state give the same result
\* for the same argument before and after every step (send_tx included),
\* and build_consensus_state never fails.
C8_BuildersDeterministic ==
    [][/\ \A h \in ArgHeights : build_client_state(h)' = build_client_state(h)
       /\ \A lb \in LightBlocks :
             /\ build_consensus_state(lb)' = build_consensus_state(lb)
             /\ build_consensus_state(lb)'.ok
       /\ (op' = "build_consensus_state" => (ret'.ok /\ ret' = build_consensus_state(arg')))
       /\ (op' = "build_client_state" => ret' = build_client_state(arg'))]_vars

C8_Witness ==
    /\ op = "build_client_state" /\ ret.ok
    /\ context.latest_height.version_height > InitialHeight
    /\ \E c \in ClientIds : context.clients[c].some

\* C9: query_client_state gives the same outcome for every height argument,
\* the Ledger's latest record for the id; after a successful send_tx that
\* changes a stored client state, a query at an older height returns the
\* new state.
C9_HeightIgnored ==
    /\ [](\A c \in ClientIds : \A h1 \in ArgHeights, h2 \in ArgHeights :
            query_client_state(c, h1) = query_client_state(c, h2))
    /\ [][(op' = "send_tx" /\ ret'.ok) =>
            \A c \in ClientIds :
               (/\ context'.clients[c] # context.clients[c]
                /\ context'.clients[c].some
                /\ context'.clients[c].v.variant = "Tendermint") =>
                   \A h \in ArgHeights :
                      query_client_state(c, h)' = Ok(context'.clients[c].v.state)]_vars

C9_Witness ==
    /\ op = "query_client_state"
    /\ arg[2] = Height(context.latest_height.version_number, InitialHeight)
    /\ context.latest_height.version_height > InitialHeight
    /\ ret = Ok([latest_height |-> MaxClientHeight])

\* C10: no operation changes the adapter's config, id returns the config's
\* chain id, and the read-only operations leave the Ledger as it was: only
\* send_tx changes it.
C10_Frame ==
    [][/\ config' = config
       /\ (op' \in ReadOnlyOps => context' = context)
       /\ (context' # context => op' = "send_tx")
       /\ (op' = "id" => ret' = Ok(config.id))]_vars

C10_Witness ==
    /\ op = "id"
    /\ ret = Ok(config.id)
    /\ ledger_sends = MaxSends
    /\ context # bootstrap(config).val.context

====
